---- MODULE Spec2Model ----
(***************************************************************************)
(* A model of diagram-to-vector: the Excalidraw importer                   *)
(* (scripts/parse_excalidraw.py) and the diagram renderer                  *)
(* (scripts/convert.py), with their command-line drivers.                  *)
(*                                                                         *)
(* Python strings the program computes with (labels, identifiers) are      *)
(* sequences of ASCII code points, so that lowercasing, the regular        *)
(* expression substitutions, str.strip and the lexicographic order used by *)
(* sorted() are computed as Python computes them.  Strings the program     *)
(* only compares with literals (element types, style values, format names) *)
(* are TLA+ strings.  A Python dict is a record whose DOMAIN holds the     *)
(* keys that are present.                                                  *)
(***************************************************************************)
EXTENDS Integers, Sequences, FiniteSets, TLC

VARIABLES
    \* sanitize_id called on its own
    sText, sExisting, sResult, sExistingOut, sPc,
    \* parse_excalidraw
    elements, iPc, iIdx, id_map, existing, nodes, edges, groups, iResult,
    \* DiagramConverter
    data, layout_override, out,
    \* the command-line drivers
    cliTool, files, formats, output, cPc, cFile, cFmt, attempted, written

vars == << sText, sExisting, sResult, sExistingOut, sPc,
           elements, iPc, iIdx, id_map, existing, nodes, edges, groups, iResult,
           data, layout_override, out,
           cliTool, files, formats, output, cPc, cFile, cFmt, attempted, written >>

sanitizeVars == << sText, sExisting, sResult, sExistingOut, sPc >>
importVars   == << elements, iPc, iIdx, id_map, existing, nodes, edges, groups, iResult >>
renderVars   == << data, layout_override, out >>
cliVars      == << cliTool, files, formats, output, cPc, cFile, cFmt, attempted, written >>

\* what each part of the program leaves alone
notSanitize == << importVars, renderVars, cliVars >>
notImport   == << sanitizeVars, renderVars, cliVars >>
notRender   == << sanitizeVars, importVars, cliVars >>
notCli      == << sanitizeVars, importVars, renderVars >>

----------------------------------------------------------------------------
(* Bounds of the model *)

\* longest input string given to sanitize_id on its own
MaxLen == 3
\* the collision sets given to sanitize_id hold a_2 .. a_MaxSuffix
MaxSuffix == 3
\* longest list of shape elements given to parse_excalidraw
MaxElems == 2
\* most input files and longest format list given to a command-line run
MaxFiles == 2
MaxFormats == 2
\* longest lists of nodes, edges and groups given to the converter
MaxNodes == 2
\* longest node label of the diagrams that exercise escaping
MaxLabelLen == 2
MaxEdges == 2
MaxGroups == 2

----------------------------------------------------------------------------
(* Python values *)

\* Python's None, where a string may also stand: no code point is negative
None == << -1 >>

\* d.get(key, default)
Get(d, key, default) == IF key \in DOMAIN d THEN d[key] ELSE default

\* "node", "Shape ", "Group", "_to_" as code points
StrNode  == << 110, 111, 100, 101 >>
StrShape == << 83, 104, 97, 112, 101, 32 >>
StrGroup == << 71, 114, 111, 117, 112 >>
StrTo    == << 95, 116, 111, 95 >>
Underscore == << 95 >>

IsUpper(c) == c \in 65..90
IsDigit(c) == c \in 48..57
IsAlnum(c) == IsDigit(c) \/ c \in 65..90 \/ c \in 97..122

\* str.lower()
Lower(s) == [i \in 1..Len(s) |-> IF IsUpper(s[i]) THEN s[i] + 32 ELSE s[i]]

\* str(n) for n >= 0
RECURSIVE IntToStr(_)
IntToStr(n) ==
    IF n < 10 THEN << 48 + n >> ELSE IntToStr(n \div 10) \o << 48 + (n % 10) >>

AlnumChars == (48..57) \cup (65..90) \cup (97..122)
SpaceChars == {32, 9, 10, 13}

\* s without its longest prefix of characters in S (inS) or outside S (~inS)
RECURSIVE DropWhile(_, _, _)
DropWhile(s, S, inS) ==
    IF s # <<>> /\ ((Head(s) \in S) <=> inS) THEN DropWhile(Tail(s), S, inS) ELSE s

RECURSIVE DropWhileEnd(_, _)
DropWhileEnd(s, S) ==
    IF s # <<>> /\ s[Len(s)] \in S THEN DropWhileEnd(SubSeq(s, 1, Len(s) - 1), S) ELSE s

\* re.sub(r'[^a-zA-Z0-9]+', '_', s)
RECURSIVE SubNonAlnumRuns(_)
SubNonAlnumRuns(s) ==
    IF s = <<>> THEN <<>>
    ELSE IF IsAlnum(Head(s)) THEN << Head(s) >> \o SubNonAlnumRuns(Tail(s))
    ELSE Underscore \o SubNonAlnumRuns(DropWhile(s, AlnumChars, FALSE))

\* re.sub(r'_+', '_', s)
RECURSIVE SubUnderscoreRuns(_)
SubUnderscoreRuns(s) ==
    IF s = <<>> THEN <<>>
    ELSE IF Head(s) # 95 THEN << Head(s) >> \o SubUnderscoreRuns(Tail(s))
    ELSE Underscore \o SubUnderscoreRuns(DropWhile(s, {95}, TRUE))

\* s.strip('_')
StripUnderscores(s) == DropWhileEnd(DropWhile(s, {95}, TRUE), {95})

\* s.strip()
StripSpace(s) == DropWhileEnd(DropWhile(s, SpaceChars, TRUE), SpaceChars)

\* Python's truth value of a string or None
Truthy(s) == s # None /\ s # <<>>

----------------------------------------------------------------------------
(* parse_excalidraw.py: sanitize_id *)

\* The optional parameter `existing`: not supplied (None), or a set.
NoSet == [supplied |-> FALSE, members |-> {}]
SetOf(S) == [supplied |-> TRUE, members |-> S]

\* `if existing:` is the truth value of the parameter: None and the empty set
\* are both false
ExistingTruthy(ex) == ex.supplied /\ ex.members # {}

\* lines 24-29: the base name
SanitizeBase(text) ==
    LET t  == IF ~Truthy(text) THEN StrNode ELSE text
        s1 == SubNonAlnumRuns(Lower(t))
        s2 == StripUnderscores(SubUnderscoreRuns(s1))
    IN  IF s2 = <<>> \/ IsDigit(s2[1]) THEN StrNode \o Underscore \o s2 ELSE s2

\* lines 31-34: the while loop
RECURSIVE FreeName(_, _, _, _)
FreeName(sanitized, orig, i, members) ==
    IF sanitized \in members
    THEN FreeName(orig \o Underscore \o IntToStr(i), orig, i + 1, members)
    ELSE sanitized

\* sanitize_id(text, existing): the returned name and the set after the call
sanitize_id(text, ex) ==
    LET base == SanitizeBase(text)
    IN  IF ExistingTruthy(ex)
        THEN LET name == FreeName(base, base, 2, ex.members)
             IN  [name |-> name, existing |-> SetOf(ex.members \cup {name})]
        ELSE [name |-> base, existing |-> ex]

----------------------------------------------------------------------------
(* sanitize_id called on its own *)

Alphabet == {65, 97, 49, 95, 64}   \* A a 1 _ @

RECURSIVE StringsOver(_, _)
StringsOver(A, n) ==
    IF n = 0 THEN { <<>> }
    ELSE LET shorter == StringsOver(A, n - 1)
         IN  shorter \cup { << c >> \o s : c \in A, s \in { t \in shorter : Len(t) = n - 1 } }

StrA == << 97 >>
\* a, a_2 .. a_MaxSuffix, node
CandidateNames ==
    { StrA, StrNode } \cup { StrA \o Underscore \o IntToStr(k) : k \in 2..MaxSuffix }

IdleSanitize ==
    /\ sText = <<>> /\ sExisting = NoSet /\ sResult = <<>>
    /\ sExistingOut = NoSet /\ sPc = "idle"

InitSanitizeCall ==
    /\ sText \in StringsOver(Alphabet, MaxLen)
    /\ sExisting \in {NoSet} \cup { SetOf(S) : S \in SUBSET CandidateNames }
    /\ sResult = <<>>
    /\ sExistingOut = sExisting
    /\ sPc = "call"

SanitizeId ==
    /\ sPc = "call"
    /\ LET r == sanitize_id(sText, sExisting)
       IN  /\ sResult' = r.name
           /\ sExistingOut' = r.existing
    /\ sPc' = "done"
    /\ UNCHANGED << sText, sExisting, notSanitize >>

----------------------------------------------------------------------------
(* parse_excalidraw.py: excalidraw_shape, find_bound_text *)

ExcalidrawShapeTable == {"rectangle", "diamond", "ellipse", "arrow", "line", "text"}

\* the table without its default
excalidraw_shape_no_default(shape) == shape

\* excalidraw_shape(shape): the table maps each of its keys to itself
excalidraw_shape(shape) ==
    IF shape \in ExcalidrawShapeTable THEN shape ELSE "rectangle"

\* el.get('type') of an element without the key is None
NoType == "<None>"

\* find_bound_text(eid, elements): the text of the first text element whose
\* containerId is eid, '' when it has no text key or no element matches
RECURSIVE find_bound_text(_, _)
find_bound_text(eid, els) ==
    IF els = <<>> THEN <<>>
    ELSE LET el == Head(els)
         IN  IF Get(el, "type", NoType) = "text" /\ Get(el, "containerId", "") = eid
             THEN Get(el, "text", <<>>)
             ELSE find_bound_text(eid, Tail(els))

\* a or b, on strings
Or(a, b) == IF Truthy(a) THEN a ELSE b

----------------------------------------------------------------------------
(* parse_excalidraw.py: parse_excalidraw, one loop iteration per step *)

\* id_map[k] = v
MapPut(m, k, v) == [x \in DOMAIN m \cup {k} |-> IF x = k THEN v ELSE m[x]]
EmptyMap == [x \in {} |-> <<>>]

\* line 64
SkippedInPass1(el) ==
    \/ Get(el, "type", NoType) \in {"arrow", "line", "text"}
    \/ Get(el, "isDeleted", FALSE)

\* the inline text before the bound text
ShapeLabelInlineFirst(el, els, nNodes) ==
    Or(Get(el, "text", <<>>),
       Or(find_bound_text(el.id, els), StrShape \o IntToStr(nNodes + 1)))

\* line 67
ShapeLabel(el, els, nNodes) ==
    Or(find_bound_text(el.id, els),
       Or(Get(el, "text", <<>>), StrShape \o IntToStr(nNodes + 1)))

\* the colours as they are, "transparent" included
ShapeStyleKeepTransparent(el) ==
    LET bg == Get(el, "backgroundColor", "")
        sc == Get(el, "strokeColor", "")
        fill   == IF bg # "" THEN {"fillColor"} ELSE {}
        stroke == IF sc # "" THEN {"strokeColor"} ELSE {}
    IN  [k \in fill \cup stroke |-> IF k = "fillColor" THEN bg ELSE sc]

\* lines 71-75
ShapeStyle(el) ==
    LET bg == Get(el, "backgroundColor", "")
        sc == Get(el, "strokeColor", "")
        fill   == IF bg # "" /\ bg # "transparent" THEN {"fillColor"} ELSE {}
        stroke == IF sc # "" THEN {"strokeColor"} ELSE {}
    IN  [k \in fill \cup stroke |-> IF k = "fillColor" THEN bg ELSE sc]

\* lines 77-85; the geometry of the model's elements is integral, which
\* round() leaves as it is
MakeNode(el, nid, label) ==
    LET node == [id |-> nid, type |-> excalidraw_shape(Get(el, "type", "")),
                 label |-> StripSpace(label),
                 x |-> Get(el, "x", 0), y |-> Get(el, "y", 0),
                 width |-> Get(el, "width", 100), height |-> Get(el, "height", 50),
                 confidence |-> 1]
        style == ShapeStyle(el)
    IN  IF DOMAIN style # {}
        THEN [k \in DOMAIN node \cup {"style"} |-> IF k = "style" THEN style ELSE node[k]]
        ELSE node

\* lines 63-86: one iteration of the first pass
Pass1Step ==
    /\ iPc = "pass1" /\ iIdx <= Len(elements)
    /\ LET el == elements[iIdx]
       IN  IF SkippedInPass1(el)
           THEN UNCHANGED << id_map, existing, nodes >>
           ELSE LET label == ShapeLabel(el, elements, Len(nodes))
                    r == sanitize_id(label, existing)
                IN  /\ id_map' = MapPut(id_map, el.id, r.name)
                    /\ existing' = r.existing
                    /\ nodes' = Append(nodes, MakeNode(el, r.name, label))
    /\ iIdx' = iIdx + 1
    /\ UNCHANGED << elements, iPc, edges, groups, iResult, notImport >>

Pass1End ==
    /\ iPc = "pass1" /\ iIdx > Len(elements)
    /\ iPc' = "pass2" /\ iIdx' = 1
    /\ UNCHANGED << elements, id_map, existing, nodes, edges, groups, iResult, notImport >>

\* a JSON null where a dict is expected
NullDict == [null |-> TRUE]

\* line 90
SkippedInPass2(el) ==
    \/ Get(el, "type", NoType) \notin {"arrow", "line"}
    \/ Get(el, "isDeleted", FALSE)

\* lines 93-94: el.get(key, {}).get('elementId'); None.get raises AttributeError
BindingRaises(el, key) == Get(el, key, <<>>) = NullDict
BoundId(el, key) == Get(Get(el, key, <<>>), "elementId", "")

\* lines 102-115
MakeEdge(el, fr, to, els) ==
    LET edge  == [id |-> fr \o StrTo \o to, from |-> fr, to |-> to,
                  type |-> IF Get(el, "type", NoType) = "arrow" THEN "arrow" ELSE "line",
                  confidence |-> 1]
        label == find_bound_text(el.id, els)
        withLabel == IF Truthy(label)
                     THEN [k \in DOMAIN edge \cup {"label"} |->
                              IF k = "label" THEN StripSpace(label) ELSE edge[k]]
                     ELSE edge
    IN  IF Get(el, "strokeStyle", "") = "dashed"
        THEN [k \in DOMAIN withLabel \cup {"style"} |->
                 IF k = "style" THEN [strokeStyle |-> "dashed"] ELSE withLabel[k]]
        ELSE withLabel

\* lines 89-116: one iteration of the second pass
Pass2Step ==
    /\ iPc = "pass2" /\ iIdx <= Len(elements)
    /\ LET el == elements[iIdx]
       IN  IF SkippedInPass2(el)
           THEN /\ iPc' = iPc /\ iIdx' = iIdx + 1
                /\ UNCHANGED << edges, iResult >>
           ELSE IF BindingRaises(el, "startBinding") \/ BindingRaises(el, "endBinding")
           THEN /\ iPc' = "raised" /\ iIdx' = iIdx
                /\ iResult' = [status |-> "AttributeError"]
                /\ UNCHANGED edges
           ELSE LET start == BoundId(el, "startBinding")
                    end   == BoundId(el, "endBinding")
                    known == start # "" /\ end # ""
                             /\ start \in DOMAIN id_map /\ end \in DOMAIN id_map
                IN  /\ iPc' = iPc /\ iIdx' = iIdx + 1
                    /\ edges' = IF known
                                THEN Append(edges, MakeEdge(el, id_map[start], id_map[end], elements))
                                ELSE edges
                    /\ UNCHANGED iResult
    /\ UNCHANGED << elements, id_map, existing, nodes, groups, notImport >>

Pass2End ==
    /\ iPc = "pass2" /\ iIdx > Len(elements)
    /\ iPc' = "pass3" /\ iIdx' = 1
    /\ UNCHANGED << elements, id_map, existing, nodes, edges, groups, iResult, notImport >>

\* lines 122-123
RECURSIVE Contained(_, _, _)
Contained(els, frameId, map) ==
    IF els = <<>> THEN <<>>
    ELSE LET e == Head(els)
             rest == Contained(Tail(els), frameId, map)
         IN  IF Get(e, "frameId", "") = frameId /\ e.id \in DOMAIN map
             THEN << map[e.id] >> \o rest
             ELSE rest

\* lines 119-125: one iteration of the third pass
Pass3Step ==
    /\ iPc = "pass3" /\ iIdx <= Len(elements)
    /\ LET el == elements[iIdx]
       IN  IF Get(el, "type", NoType) = "frame" /\ ~Get(el, "isDeleted", FALSE)
           THEN LET r == sanitize_id(Get(el, "name", StrGroup), existing)
                    contained == Contained(elements, el.id, id_map)
                IN  /\ existing' = r.existing
                    /\ groups' = IF contained # <<>>
                                 THEN Append(groups, [id |-> r.name,
                                                      label |-> Get(el, "name", StrGroup),
                                                      nodeIds |-> contained])
                                 ELSE groups
           ELSE UNCHANGED << existing, groups >>
    /\ iIdx' = iIdx + 1
    /\ UNCHANGED << elements, iPc, id_map, nodes, edges, iResult, notImport >>

\* the type decided by the first node alone
DiagramTypeOfFirst(ns) ==
    IF ns # <<>> /\ ns[1].type = "diamond" THEN "flowchart" ELSE "architecture"

\* lines 127-132
DiagramType(ns) ==
    IF \E k \in 1..Len(ns) : ns[k].type = "diamond" THEN "flowchart" ELSE "architecture"

Return ==
    /\ iPc = "pass3" /\ iIdx > Len(elements)
    /\ iPc' = "done"
    /\ iResult' = [status |-> "ok", diagramType |-> DiagramType(nodes),
                   source |-> "excalidraw", overallConfidence |-> 1,
                   nodes |-> nodes, edges |-> edges, groups |-> groups]
    /\ UNCHANGED << elements, iIdx, id_map, existing, nodes, edges, groups, notImport >>

\* lines 63-86 over the elements from position i on; st holds id_map, existing
\* and nodes
RECURSIVE Pass1From(_, _, _)
Pass1From(els, i, st) ==
    IF i > Len(els) THEN st
    ELSE LET el == els[i]
         IN  IF SkippedInPass1(el) THEN Pass1From(els, i + 1, st)
             ELSE LET label == ShapeLabel(el, els, Len(st.nodes))
                      r == sanitize_id(label, st.existing)
                  IN  Pass1From(els, i + 1,
                                [id_map |-> MapPut(st.id_map, el.id, r.name),
                                 existing |-> r.existing,
                                 nodes |-> Append(st.nodes, MakeNode(el, r.name, label))])

\* lines 89-116 over the elements from position i on: the edges, or the
\* AttributeError of a null binding
RECURSIVE Pass2From(_, _, _, _)
Pass2From(els, i, map, es) ==
    IF i > Len(els) THEN [raised |-> FALSE, edges |-> es]
    ELSE LET el == els[i]
         IN  IF SkippedInPass2(el) THEN Pass2From(els, i + 1, map, es)
             ELSE IF BindingRaises(el, "startBinding") \/ BindingRaises(el, "endBinding")
             THEN [raised |-> TRUE, edges |-> es]
             ELSE LET start == BoundId(el, "startBinding")
                      end   == BoundId(el, "endBinding")
                  IN  IF start # "" /\ end # "" /\ start \in DOMAIN map /\ end \in DOMAIN map
                      THEN Pass2From(els, i + 1, map,
                                     Append(es, MakeEdge(el, map[start], map[end], els)))
                      ELSE Pass2From(els, i + 1, map, es)

\* lines 119-125 over the elements from position i on
RECURSIVE Pass3From(_, _, _, _, _)
Pass3From(els, i, map, ex, gs) ==
    IF i > Len(els) THEN gs
    ELSE LET el == els[i]
         IN  IF Get(el, "type", NoType) = "frame" /\ ~Get(el, "isDeleted", FALSE)
             THEN LET r == sanitize_id(Get(el, "name", StrGroup), ex)
                      contained == Contained(els, el.id, map)
                  IN  Pass3From(els, i + 1, map, r.existing,
                                IF contained # <<>>
                                THEN Append(gs, [id |-> r.name,
                                                 label |-> Get(el, "name", StrGroup),
                                                 nodeIds |-> contained])
                                ELSE gs)
             ELSE Pass3From(els, i + 1, map, ex, gs)

\* lines 58-132: what parse_excalidraw returns for the elements els
ImportOf(els) ==
    LET p1 == Pass1From(els, 1, [id_map |-> EmptyMap, existing |-> SetOf({}), nodes |-> <<>>])
        p2 == Pass2From(els, 1, p1.id_map, <<>>)
    IN  IF p2.raised THEN [status |-> "AttributeError"]
        ELSE [status |-> "ok", diagramType |-> DiagramType(p1.nodes),
              source |-> "excalidraw", overallConfidence |-> 1,
              nodes |-> p1.nodes, edges |-> p2.edges,
              groups |-> Pass3From(els, 1, p1.id_map, p1.existing, <<>>)]

----------------------------------------------------------------------------
(* The element lists given to parse_excalidraw.  The element at position k *)
(* has the native id "e<k>".                                                *)

NativeId(k) == CASE k = 1 -> "e1" [] k = 2 -> "e2" [] k = 3 -> "e3"
                 [] k = 4 -> "e4" [] OTHER -> "e5"

StrUpperA == << 65 >>
StrB == << 66 >>

\* r with key k set to v
With(r, k, v) == [x \in DOMAIN r \cup {k} |-> IF x = k THEN v ELSE r[x]]

\* the records of a set, each also without the key and with each value
Optional(rs, k, vals) == rs \cup { With(r, k, v) : r \in rs, v \in vals }

ShapeTypes == {"rectangle", "diamond", "ellipse", "circle", "cylinder",
               "parallelogram", "hexagon"}

\* shape elements: every type or none, an inline text or none, deleted or not
ShapeElements(k) ==
    Optional(Optional(Optional({[id |-> NativeId(k)]},
        "type", ShapeTypes), "text", {StrUpperA, StrA}), "isDeleted", {TRUE})

RECURSIVE ShapeLists(_)
ShapeLists(n) ==
    IF n = 0 THEN { <<>> }
    ELSE LET shorter == ShapeLists(n - 1)
         IN  shorter \cup { Append(l, e) : l \in { t \in shorter : Len(t) = n - 1 },
                                           e \in ShapeElements(n) }

\* two shapes, a connector or a text, and a frame
FramedShapes(k) ==
    Optional({[id |-> NativeId(k), type |-> "rectangle", text |-> StrUpperA],
              [id |-> NativeId(k), type |-> "diamond"]}, "frameId", {"e4"})
Connectors(k) ==
    Optional(Optional(Optional(
        {[id |-> NativeId(k), type |-> t] : t \in {"arrow", "line"}},
        "startBinding", {NullDict, [focus |-> 0], [elementId |-> "e1"], [elementId |-> "e5"]}),
        "endBinding", {NullDict, [elementId |-> "e2"], [elementId |-> "e3"]}),
        "strokeStyle", {"dashed"})
Texts(k) ==
    {[id |-> NativeId(k), type |-> "text", text |-> StrB, containerId |-> c] :
        c \in {"e1", "e3"}}
Frames(k) ==
    Optional(Optional({[id |-> NativeId(k), type |-> "frame"]},
        "name", {None, StrUpperA}), "isDeleted", {TRUE})

MixedLists ==
    { << a, b, c, d >> : a \in FramedShapes(1), b \in FramedShapes(2),
                         c \in Connectors(3) \cup Texts(3), d \in Frames(4) }

\* " C ": a text with surrounding whitespace
StrSpacedC == << 32, 67, 32 >>

\* shapes with an inline text (possibly empty) or none, and texts bound to the
\* first or the second element with a text (possibly empty) or none, at any
\* position of the list
LabelElements(k) ==
    Optional({[id |-> NativeId(k)]}, "text", {<<>>, StrUpperA})
    \cup {[id |-> NativeId(k), isDeleted |-> TRUE]}
    \cup Optional({[id |-> NativeId(k), type |-> "text", containerId |-> c] : c \in {"e1", "e2"}},
                  "text", {<<>>, StrB, StrSpacedC})

RECURSIVE LabelLists(_)
LabelLists(n) ==
    IF n = 0 THEN { <<>> }
    ELSE LET shorter == LabelLists(n - 1)
         IN  shorter \cup { Append(l, e) : l \in { t \in shorter : Len(t) = n - 1 },
                                           e \in LabelElements(n) }

\* shapes with each colour absent, empty, or set; the background also
\* "transparent"
StyledShapes(k) ==
    Optional(Optional({[id |-> NativeId(k), type |-> "rectangle"]},
        "backgroundColor", {"", "transparent", "#f00"}),
        "strokeColor", {"", "#00f"})

RECURSIVE StyledLists(_)
StyledLists(n) ==
    IF n = 0 THEN { <<>> }
    ELSE LET shorter == StyledLists(n - 1)
         IN  shorter \cup { Append(l, e) : l \in { t \in shorter : Len(t) = n - 1 },
                                           e \in StyledShapes(n) }

\* a shape, a shape or a text bound to the first, an arrow between the two, a
\* frame, and possibly a text bound to the arrow; each deleted or not
DeletedLists ==
    LET shapes1 == Optional(FramedShapes(1), "isDeleted", {TRUE})
        second  == Optional({[id |-> "e2", type |-> "ellipse", frameId |-> "e4"],
                             [id |-> "e2", type |-> "text", text |-> StrB, containerId |-> "e1"]},
                            "isDeleted", {TRUE})
        arrows  == Optional({[id |-> "e3", type |-> "arrow",
                              startBinding |-> [elementId |-> "e1"],
                              endBinding |-> [elementId |-> "e2"]]}, "isDeleted", {TRUE})
        frames  == Optional({[id |-> "e4", type |-> "frame", name |-> StrUpperA]},
                            "isDeleted", {TRUE})
        texts   == Optional({[id |-> "e5", type |-> "text", text |-> StrSpacedC,
                              containerId |-> "e3"]}, "isDeleted", {TRUE})
        four    == { << a, b, c, d >> : a \in shapes1, b \in second, c \in arrows, d \in frames }
    IN  four \cup { Append(l, t) : l \in four, t \in texts }

IdleImport ==
    /\ elements = <<>> /\ iPc = "idle" /\ iIdx = 1 /\ id_map = EmptyMap
    /\ existing = SetOf({}) /\ nodes = <<>> /\ edges = <<>> /\ groups = <<>>
    /\ iResult = [status |-> "idle"]

\* lines 58-60
InitImportCall ==
    /\ elements \in ShapeLists(MaxElems) \cup MixedLists
                    \cup LabelLists(MaxElems + 1) \cup StyledLists(MaxElems)
                    \cup DeletedLists
    /\ iPc = "pass1" /\ iIdx = 1
    /\ id_map = EmptyMap /\ existing = SetOf({})
    /\ nodes = <<>> /\ edges = <<>> /\ groups = <<>>
    /\ iResult = [status |-> "running"]

----------------------------------------------------------------------------
(* convert.py: DiagramConverter *)

\* the order of Python strings: code point by code point, a prefix first
RECURSIVE StrLess(_, _)
StrLess(a, b) ==
    IF b = <<>> THEN FALSE
    ELSE IF a = <<>> THEN TRUE
    ELSE IF Head(a) # Head(b) THEN Head(a) < Head(b)
    ELSE StrLess(Tail(a), Tail(b))

\* a list of << key, value >> pairs with one more pair put after every pair
\* whose key is not greater
RECURSIVE InsertByKey(_, _)
InsertByKey(p, sorted) ==
    IF sorted = <<>> THEN << p >>
    ELSE IF StrLess(p[1], Head(sorted)[1]) THEN << p >> \o sorted
    ELSE << Head(sorted) >> \o InsertByKey(p, Tail(sorted))

\* sorted(pairs, key=first): stable, as Python's sort is
RECURSIVE SortByKey(_)
SortByKey(ps) ==
    IF ps = <<>> THEN <<>>
    ELSE InsertByKey(ps[Len(ps)], SortByKey(SubSeq(ps, 1, Len(ps) - 1)))

Values(ps) == [i \in 1..Len(ps) |-> ps[i][2]]

\* sorted(items, key=lambda e: e.get('id', ''))
SortedById(items) ==
    Values(SortByKey([i \in 1..Len(items) |-> << Get(items[i], "id", <<>>), items[i] >>]))

\* sorted(strings)
SortedStrings(strs) ==
    Values(SortByKey([i \in 1..Len(strs) |-> << strs[i], strs[i] >>]))

Range(seq) == { seq[i] : i \in 1..Len(seq) }

\* lines 55-61: __init__; in the dict the last node of an id stands for it
NodesDict(ns) ==
    [nid \in { ns[i].id : i \in 1..Len(ns) } |->
        ns[CHOOSE i \in 1..Len(ns) :
              ns[i].id = nid /\ \A j \in (i + 1)..Len(ns) : ns[j].id # nid]]

Converter(d, layout_mode) ==
    [nodes |-> NodesDict(Get(d, "nodes", <<>>)),
     edges |-> Get(d, "edges", <<>>),
     groups |-> Get(d, "groups", <<>>),
     title |-> Get(d, "title", <<>>),
     layout_override |-> layout_mode]

\* sorted(self.nodes.items()): the ids in ascending order
RECURSIVE SetToSeq(_)
SetToSeq(S) ==
    IF S = {} THEN <<>>
    ELSE LET x == CHOOSE x \in S : TRUE IN << x >> \o SetToSeq(S \ {x})
SortedNodeIds(conv) == SortedStrings(SetToSeq(DOMAIN conv.nodes))

DefaultLayout(fmt) ==
    IF fmt \in {"drawio", "svg"} THEN "position" ELSE "structure"

\* lines 63-64
get_layout(conv, fmt) ==
    IF conv.layout_override # "" THEN conv.layout_override ELSE DefaultLayout(fmt)

Max(S) == CHOOSE x \in S : \A y \in S : y <= x
Min(S) == CHOOSE x \in S : \A y \in S : x <= y

\* left to right also when the spans are equal
DirectionNotNarrower(conv) ==
    IF get_layout(conv, "mermaid") = "position" /\ DOMAIN conv.nodes # {}
    THEN LET xs == { Get(conv.nodes[n], "x", 0) : n \in DOMAIN conv.nodes }
             ys == { Get(conv.nodes[n], "y", 0) : n \in DOMAIN conv.nodes }
         IN  IF Max(xs) - Min(xs) >= Max(ys) - Min(ys) THEN "LR" ELSE "TD"
    ELSE "TD"

\* lines 83-88
Direction(conv) ==
    IF get_layout(conv, "mermaid") = "position" /\ DOMAIN conv.nodes # {}
    THEN LET xs == { Get(conv.nodes[n], "x", 0) : n \in DOMAIN conv.nodes }
             ys == { Get(conv.nodes[n], "y", 0) : n \in DOMAIN conv.nodes }
         IN  IF Max(xs) - Min(xs) > Max(ys) - Min(ys) THEN "LR" ELSE "TD"
    ELSE "TD"

\* s.replace(old, new) for single characters
ReplaceChar(s, old, new) == [i \in 1..Len(s) |-> IF s[i] = old THEN new ELSE s[i]]

MermaidShapes == {"rectangle", "diamond", "circle", "ellipse", "cylinder", "parallelogram"}

\* lines 133-137: a declaration line, the indentation counted in spaces
mermaid_node(nid, node, indent) ==
    LET shape == Get(node, "type", "rectangle")
        label == ReplaceChar(ReplaceChar(ReplaceChar(Get(node, "label", nid),
                     34, 39), 91, 40), 93, 41)
    IN  [k |-> "node", indent |-> indent + 4, id |-> nid,
         shape |-> IF shape \in MermaidShapes THEN shape ELSE "rectangle",
         label |-> label]

\* the ids no group lists
GroupedNone(gs) == {}

\* lines 92-94
Grouped(gs) == UNION { Range(Get(gs[i], "nodeIds", <<>>)) : i \in 1..Len(gs) }

\* lines 96-99
RECURSIVE TopLevelLines(_, _, _)
TopLevelLines(ids, conv, grouped) ==
    IF ids = <<>> THEN <<>>
    ELSE LET nid == Head(ids)
             rest == TopLevelLines(Tail(ids), conv, grouped)
         IN  IF nid \in grouped THEN rest
             ELSE << mermaid_node(nid, conv.nodes[nid], 0) >> \o rest

\* lines 104-106
RECURSIVE MemberLines(_, _)
MemberLines(ids, conv) ==
    IF ids = <<>> THEN <<>>
    ELSE LET nid == Head(ids)
             rest == MemberLines(Tail(ids), conv)
         IN  IF nid \in DOMAIN conv.nodes
             THEN << mermaid_node(nid, conv.nodes[nid], 4) >> \o rest
             ELSE rest

StrGroupLower == << 103, 114, 111, 117, 112 >>   \* "group"

\* lines 101-107
RECURSIVE GroupBlocks(_, _)
GroupBlocks(gs, conv) ==
    IF gs = <<>> THEN <<>>
    ELSE LET g == Head(gs)
         IN  << [k |-> "blank"],
                [k |-> "subgraph", id |-> Get(g, "id", StrGroupLower),
                 label |-> Get(g, "label", <<>>)] >>
             \o MemberLines(SortedStrings(Get(g, "nodeIds", <<>>)), conv)
             \o << [k |-> "end"] >>
             \o GroupBlocks(Tail(gs), conv)

IsDashed(edge) == Get(Get(edge, "style", <<>>), "strokeStyle", "") = "dashed"

\* lines 115-117
MermaidArrow(edge) ==
    IF Get(edge, "type", "") = "line" THEN "---"
    ELSE IF IsDashed(edge) THEN "-.->" ELSE "-->"

\* the edges with both ends among the nodes
ResolvedOnly(es, conv) ==
    LET Resolved(e) == Get(e, "from", <<>>) \in DOMAIN conv.nodes
                       /\ Get(e, "to", <<>>) \in DOMAIN conv.nodes
    IN  SelectSeq(es, Resolved)

\* only the edges between existing nodes
MermaidEdgesResolvedOnly(es, conv) == SortedById(ResolvedOnly(es, conv))

\* line 111: the edges to_mermaid writes, in the order it writes them
MermaidEdges(es, conv) == SortedById(es)

\* lines 112-121; an empty label writes no |label| segment
MermaidEdgeLine(edge) ==
    [k |-> "edge", from |-> Get(edge, "from", <<>>), to |-> Get(edge, "to", <<>>),
     arrow |-> MermaidArrow(edge), label |-> Get(edge, "label", <<>>)]

\* lines 66-76
StyleParts(style) ==
    (IF Get(style, "fillColor", "") # "" THEN << << "fill", style.fillColor >> >> ELSE <<>>)
    \o (IF Get(style, "strokeColor", "") # "" THEN << << "stroke", style.strokeColor >> >> ELSE <<>>)
    \o (IF Get(style, "strokeWidth", "") # "" THEN << << "stroke-width", style.strokeWidth >> >> ELSE <<>>)

\* lines 123-129
RECURSIVE StyleLines(_, _)
StyleLines(ids, conv) ==
    IF ids = <<>> THEN <<>>
    ELSE LET parts == StyleParts(Get(conv.nodes[Head(ids)], "style", <<>>))
             rest == StyleLines(Tail(ids), conv)
         IN  IF parts # <<>>
             THEN << [k |-> "style", id |-> Head(ids), parts |-> parts] >> \o rest
             ELSE rest

Ok(body) == [status |-> "ok", body |-> body]
Raised(what) == [status |-> what, body |-> <<>>]

\* lines 78-131: the lines of the document
to_mermaid(conv) ==
    LET ids == SortedNodeIds(conv)
        es == MermaidEdges(conv.edges, conv)
        styles == StyleLines(ids, conv)
    IN  Ok((IF Truthy(conv.title) THEN << [k |-> "title", label |-> conv.title] >> ELSE <<>>)
           \o << [k |-> "flowchart", direction |-> Direction(conv)] >>
           \o TopLevelLines(ids, conv, Grouped(conv.groups))
           \o GroupBlocks(SortedById(conv.groups), conv)
           \o << [k |-> "blank"] >>
           \o [i \in 1..Len(es) |-> MermaidEdgeLine(es[i])]
           \o (IF styles # <<>> THEN << [k |-> "blank"] >> \o styles ELSE <<>>))

\* label.replace('"', '\\"')
RECURSIVE EscapeQuotes(_)
EscapeQuotes(s) ==
    IF s = <<>> THEN <<>>
    ELSE (IF Head(s) = 34 THEN << 92, 34 >> ELSE << Head(s) >>) \o EscapeQuotes(Tail(s))

\* GRAPHVIZ_SHAPES.get(type, 'box')
GraphvizShape(type) ==
    CASE type = "rectangle" -> "box"
      [] type \in {"diamond", "circle", "ellipse", "cylinder", "parallelogram"} -> type
      [] OTHER -> "box"

\* lines 144-153
GraphvizNodeLine(nid, node) ==
    LET style == Get(node, "style", <<>>)
    IN  [k |-> "node", id |-> nid,
         label |-> EscapeQuotes(Get(node, "label", nid)),
         shape |-> GraphvizShape(Get(node, "type", "rectangle")),
         fillcolor |-> Get(style, "fillColor", ""),
         color |-> Get(style, "strokeColor", "")]

\* lines 158-165; an empty label writes no label attribute
GraphvizEdgeLine(edge) ==
    [k |-> "edge", from |-> Get(edge, "from", <<>>), to |-> Get(edge, "to", <<>>),
     label |-> Get(edge, "label", <<>>),
     attrs |-> IF IsDashed(edge) THEN << "style=dashed" >> ELSE <<>>]

\* lines 167-172
RECURSIVE Clusters(_)
Clusters(gs) ==
    IF gs = <<>> THEN <<>>
    ELSE LET g == Head(gs)
             ids == SortedStrings(Get(g, "nodeIds", <<>>))
         IN  << [k |-> "blank"],
                [k |-> "cluster", id |-> Get(g, "id", <<>>), label |-> Get(g, "label", <<>>)] >>
             \o [i \in 1..Len(ids) |-> [k |-> "member", id |-> ids[i]]]
             \o << [k |-> "close"] >>
             \o Clusters(Tail(gs))

\* lines 139-175
to_graphviz(conv) ==
    LET ids == SortedNodeIds(conv)
        es == SortedById(conv.edges)
    IN  Ok(<< [k |-> "digraph"] >>
           \o (IF Truthy(conv.title) THEN << [k |-> "title", label |-> conv.title] >> ELSE <<>>)
           \o << [k |-> "rankdir"], [k |-> "fontname"], [k |-> "blank"] >>
           \o [i \in 1..Len(ids) |-> GraphvizNodeLine(ids[i], conv.nodes[ids[i]])]
           \o << [k |-> "blank"] >>
           \o [i \in 1..Len(es) |-> GraphvizEdgeLine(es[i])]
           \o Clusters(SortedById(conv.groups))
           \o << [k |-> "close"] >>)

\* the text as it is
html_escape_none(s) == s

\* html.escape(s): & < > " ' become entities
RECURSIVE html_escape(_)
html_escape(s) ==
    IF s = <<>> THEN <<>>
    ELSE (CASE Head(s) = 38 -> << 38, 97, 109, 112, 59 >>
            [] Head(s) = 60 -> << 38, 108, 116, 59 >>
            [] Head(s) = 62 -> << 38, 103, 116, 59 >>
            [] Head(s) = 34 -> << 38, 113, 117, 111, 116, 59 >>
            [] Head(s) = 39 -> << 38, 35, 120, 50, 55, 59 >>
            [] OTHER -> << Head(s) >>)
         \o html_escape(Tail(s))

StrCell == << 99, 101, 108, 108, 95 >>   \* "cell_"

DrawioShapes == {"rectangle", "diamond", "circle", "ellipse", "cylinder", "parallelogram"}

\* lines 180-195: the style is the base style of the shape, then the colours
DrawioNodeCell(nid, node) ==
    LET shape == Get(node, "type", "rectangle")
        ns == Get(node, "style", <<>>)
    IN  [k |-> "vertex", id |-> StrCell \o nid,
         value |-> html_escape(Get(node, "label", nid)),
         style |-> << << "shape", IF shape \in DrawioShapes THEN shape ELSE "rectangle" >> >>
                   \o (IF Get(ns, "fillColor", "") # ""
                       THEN << << "fillColor", ns.fillColor >> >> ELSE <<>>)
                   \o (IF Get(ns, "strokeColor", "") # ""
                       THEN << << "strokeColor", ns.strokeColor >> >> ELSE <<>>),
         x |-> Get(node, "x", 0), y |-> Get(node, "y", 0),
         width |-> Get(node, "width", 120), height |-> Get(node, "height", 60)]

\* lines 197-206
DrawioEdgeCell(edge) ==
    [k |-> "edge", id |-> StrCell \o Get(edge, "id", <<>>),
     value |-> html_escape(Get(edge, "label", <<>>)),
     style |-> << << "edgeStyle", "orthogonalEdgeStyle" >> >>
               \o (IF IsDashed(edge) THEN << << "dashed", "1" >> >> ELSE <<>>),
     source |-> StrCell \o Get(edge, "from", <<>>),
     target |-> StrCell \o Get(edge, "to", <<>>)]

\* lines 177-219: the two fixed root cells "0" and "1", then the cells
to_drawio(conv) ==
    LET ids == SortedNodeIds(conv)
        es == SortedById(conv.edges)
    IN  Ok(<< [k |-> "root", id |-> << 48 >>], [k |-> "root", id |-> << 49 >>] >>
           \o [i \in 1..Len(ids) |-> DrawioNodeCell(ids[i], conv.nodes[ids[i]])]
           \o [i \in 1..Len(es) |-> DrawioEdgeCell(es[i])])

\* line 237: edge['from'], edge['to']
SvgEdgeRaises(edge) == {"from", "to"} \ DOMAIN edge # {}

\* lines 237-239: the edge is drawn when both ends are nodes
SvgEdgeDrawn(edge, conv) ==
    edge.from \in DOMAIN conv.nodes /\ edge.to \in DOMAIN conv.nodes

\* lines 240-243, 248: node['x'], node['y']
SvgNodeRaises(node) == {"x", "y"} \ DOMAIN node # {}

\* lines 240-245; the ends are midpoints, kept exact by counting half units
SvgLine(edge, conv, ox, oy) ==
    LET fn == conv.nodes[edge.from]
        tn == conv.nodes[edge.to]
    IN  [k |-> "line",
         x1 |-> 2 * (fn.x + ox) + Get(fn, "width", 120),
         y1 |-> 2 * (fn.y + oy) + Get(fn, "height", 60),
         x2 |-> 2 * (tn.x + ox) + Get(tn, "width", 120),
         y2 |-> 2 * (tn.y + oy) + Get(tn, "height", 60),
         dash |-> IsDashed(edge)]

\* lines 247-255: the text anchor in half units
SvgNode(nid, node, ox, oy) ==
    LET x == node.x + ox
        y == node.y + oy
        w == Get(node, "width", 120)
        h == Get(node, "height", 60)
        style == Get(node, "style", <<>>)
    IN  << [k |-> "rect", x |-> x, y |-> y, width |-> w, height |-> h,
            fill |-> Get(style, "fillColor", "#fff"),
            stroke |-> Get(style, "strokeColor", "#333")],
           [k |-> "text", x |-> 2 * x + w, y |-> 2 * y + h + 10,
            label |-> html_escape(Get(node, "label", nid))] >>

RECURSIVE Flatten(_)
Flatten(ss) == IF ss = <<>> THEN <<>> ELSE Head(ss) \o Flatten(Tail(ss))

Pad == 50

\* lines 221-261
to_svg(conv) ==
    IF DOMAIN conv.nodes = {}
    THEN Ok(<< [k |-> "svg", width |-> 100, height |-> 100] >>)
    ELSE
    LET ns == conv.nodes
        ids == SortedNodeIds(conv)
        es == SortedById(conv.edges)
        min_x == Min({ Get(ns[n], "x", 0) : n \in DOMAIN ns })
        min_y == Min({ Get(ns[n], "y", 0) : n \in DOMAIN ns })
        max_x == Max({ Get(ns[n], "x", 0) + Get(ns[n], "width", 120) : n \in DOMAIN ns })
        max_y == Max({ Get(ns[n], "y", 0) + Get(ns[n], "height", 60) : n \in DOMAIN ns })
        ox == Pad - min_x
        oy == Pad - min_y
        Drawn(e) == SvgEdgeDrawn(e, conv)
        drawn == SelectSeq(es, Drawn)
    IN  IF \/ \E i \in 1..Len(es) : SvgEdgeRaises(es[i])
           \/ \E i \in 1..Len(drawn) :
                 SvgNodeRaises(ns[drawn[i].from]) \/ SvgNodeRaises(ns[drawn[i].to])
           \/ \E n \in DOMAIN ns : SvgNodeRaises(ns[n])
        THEN Raised("KeyError")
        ELSE Ok(<< [k |-> "svg", width |-> max_x - min_x + Pad * 2,
                    height |-> max_y - min_y + Pad * 2] >>
                \o [i \in 1..Len(drawn) |-> SvgLine(drawn[i], conv, ox, oy)]
                \o Flatten([i \in 1..Len(ids) |-> SvgNode(ids[i], ns[ids[i]], ox, oy)]))

Formats == {"mermaid", "graphviz", "drawio", "svg"}

Render(fmt, conv) ==
    CASE fmt = "mermaid" -> to_mermaid(conv)
      [] fmt = "graphviz" -> to_graphviz(conv)
      [] fmt = "drawio" -> to_drawio(conv)
      [] fmt = "svg" -> to_svg(conv)
      [] OTHER -> Raised("KeyError")

\* the names of the formats as Python strings
StrMermaid  == << 109, 101, 114, 109, 97, 105, 100 >>
StrGraphviz == << 103, 114, 97, 112, 104, 118, 105, 122 >>
StrDrawio   == << 100, 114, 97, 119, 105, 111 >>
StrSvg      == << 115, 118, 103 >>

\* line 264: the key of the dict that name is, "unknown" when it is none
FormatOf(name) ==
    CASE name = StrMermaid -> "mermaid"
      [] name = StrGraphviz -> "graphviz"
      [] name = StrDrawio -> "drawio"
      [] name = StrSvg -> "svg"
      [] OTHER -> "unknown"

\* the name looked up as it is given
convert_case_sensitive(conv, fmt) == Render(FormatOf(fmt), conv)

\* lines 263-265: convert(fmt)
convert(conv, fmt) == Render(FormatOf(Lower(fmt)), conv)

\* the converter built from the input
Conv == Converter(data, layout_override)

\* no diagram has been loaded
NoData == [loaded |-> FALSE]
Loaded == "loaded" \notin DOMAIN data

NotRendered == [fmt |-> "none", status |-> "none", body |-> <<>>]
Rendered(fmt, r) == [fmt |-> fmt, status |-> r.status, body |-> r.body]

\* a call after which the diagram has no groups left
ToMermaidConsumingGroups ==
    /\ Loaded
    /\ out' = Rendered("mermaid", to_mermaid(Conv))
    /\ data' = [data EXCEPT !.groups = <<>>]
    /\ UNCHANGED << layout_override, notRender >>

ToMermaid ==
    /\ Loaded
    /\ out' = Rendered("mermaid", to_mermaid(Conv))
    /\ UNCHANGED << data, layout_override, notRender >>

ToGraphviz ==
    /\ Loaded
    /\ out' = Rendered("graphviz", to_graphviz(Conv))
    /\ UNCHANGED << data, layout_override, notRender >>

ToDrawio ==
    /\ Loaded
    /\ out' = Rendered("drawio", to_drawio(Conv))
    /\ UNCHANGED << data, layout_override, notRender >>

ToSvg ==
    /\ Loaded
    /\ out' = Rendered("svg", to_svg(Conv))
    /\ UNCHANGED << data, layout_override, notRender >>

\* the names convert is called with: the formats in several spellings, names
\* of no format, the empty name and a name with a space before it
FormatArgs ==
    { << 109, 101, 114, 109, 97, 105, 100 >>,
      << 77, 69, 82, 77, 65, 73, 68 >>,
      << 71, 114, 97, 112, 104, 86, 105, 122 >>,
      << 100, 114, 97, 119, 105, 111 >>,
      << 83, 118, 103 >>,
      << 112, 110, 103 >>,
      <<>>,
      << 32, 115, 118, 103 >>,
      << 100, 111, 116 >> }

\* convert(fmt); the call is recorded with the name it was given
Convert ==
    /\ Loaded
    /\ \E fmt \in FormatArgs :
          out' = With(Rendered(FormatOf(Lower(fmt)), convert(Conv, fmt)), "arg", fmt)
    /\ UNCHANGED << data, layout_override, notRender >>

----------------------------------------------------------------------------
(* The diagrams given to the converter.  Node ids are unique in each.      *)

\* the lists over S of length at most n
RECURSIVE ListsOver(_, _)
ListsOver(S, n) ==
    IF n = 0 THEN { <<>> }
    ELSE LET shorter == ListsOver(S, n - 1)
         IN  shorter \cup { Append(l, x) : l \in { t \in shorter : Len(t) = n - 1 }, x \in S }

StrZ == << 122 >>
StrE == << 101 >>
StrF == << 102 >>
StrG == << 103 >>
StrH == << 104 >>
StrT == << 84 >>

\* the k-th id of a kind: a letter and the digits of k
Numbered(letter, k) == letter \o IntToStr(k)
\* a list whose k-th item has the k-th id
NumberedItems(l, letter) == [i \in 1..Len(l) |-> With(l[i], "id", Numbered(letter, i))]

NodeA == [id |-> StrA, label |-> StrUpperA, x |-> 0, y |-> 0]
NodeB == [id |-> << 98 >>, type |-> "diamond", x |-> 200, y |-> 100, width |-> 80, height |-> 40]
TwoNodes == << NodeA, NodeB >>
StrLowerB == << 98 >>
StrC == << 99 >>

Diagram(ns, es, gs) == [nodes |-> ns, edges |-> es, groups |-> gs]

\* edges between a and b in both directions, with an id, a shared id or none
OrderEdges ==
    Optional({[from |-> StrA, to |-> StrLowerB], [from |-> StrLowerB, to |-> StrA]},
             "id", {StrE, StrF})
EdgeOrderDiagrams ==
    { Diagram(TwoNodes, es, <<>>) : es \in ListsOver(OrderEdges, MaxEdges) }

\* groups of a or of b, with an id, a shared id or none
OrderGroups ==
    Optional({[label |-> StrUpperA, nodeIds |-> << StrA >>],
              [label |-> StrB, nodeIds |-> << StrLowerB >>]},
             "id", {StrG, StrH})
GroupOrderDiagrams ==
    { Diagram(TwoNodes, <<>>, gs) : gs \in ListsOver(OrderGroups, MaxGroups) }

\* the nodes in every order, with a title or none
DistinctIds(l) == \A i, j \in 1..Len(l) : i # j => l[i].id # l[j].id
OrderNodes == { NodeA, NodeB, [id |-> StrC, x |-> 300, y |-> 0] }
NodeOrderDiagrams ==
    Optional({ Diagram(ns, << [id |-> StrE, from |-> StrA, to |-> StrLowerB] >>,
                       << [id |-> StrG, label |-> StrT, nodeIds |-> << StrLowerB >>] >>) :
                 ns \in { l \in ListsOver(OrderNodes, MaxNodes) : DistinctIds(l) } },
             "title", {StrT})

\* edges of every type and style whose ends exist or not; the k-th is e<k>
KindEdges ==
    Optional(Optional(
        {[from |-> f, to |-> t] : f \in {StrA, StrZ}, t \in {StrLowerB, StrZ}},
        "type", {"arrow", "line"}),
        "style", {[strokeStyle |-> "dashed"]})
EdgeKindDiagrams ==
    { Diagram(TwoNodes, NumberedItems(es, StrE), <<>>) : es \in ListsOver(KindEdges, MaxEdges) }
    \cup { Diagram(TwoNodes, << [id |-> StrE, from |-> StrA, to |-> StrLowerB, style |-> st] >>, <<>>) :
              st \in {[strokeStyle |-> "solid"], [strokeWidth |-> "2"]} }

\* a node with each optional field present or not, alone or with a second node
SparseNodes ==
    Optional(Optional(Optional(Optional(Optional(Optional(Optional(
        {[id |-> StrA]},
        "x", {10}), "y", {20}), "width", {80}), "height", {40}),
        "label", {StrUpperA}), "type", {"diamond"}),
        "style", {[fillColor |-> "#f00", strokeColor |-> "#00f", strokeWidth |-> "2"]})
SparseNodeDiagrams ==
    { Diagram(<< n >>, <<>>, <<>>) : n \in SparseNodes }
    \cup { Diagram(<< n, NodeB >>, << [id |-> StrE, from |-> StrA, to |-> StrLowerB] >>, <<>>) :
              n \in SparseNodes }

\* groups listing a, b and an id of no node, in lists with repetitions
MemberLists == ListsOver({StrA, StrLowerB, StrZ}, 2)
MemberGroups == { [label |-> StrT, nodeIds |-> m] : m \in MemberLists }
GroupMemberDiagrams ==
    { Diagram(ns, <<>>, NumberedItems(gs, StrG)) :
        ns \in { << NodeA >>, TwoNodes }, gs \in ListsOver(MemberGroups, MaxGroups) }

\* a node whose label is any string over < > & " ' [ ] A
LabelAlphabet == {60, 62, 38, 34, 39, 91, 93, 65}
LabelDiagrams ==
    { Diagram(<< With(NodeA, "label", l) >>, <<>>, <<>>) :
        l \in StringsOver(LabelAlphabet, MaxLabelLen) }

\* no node, one node, or two nodes with each coordinate absent or set
SpanNodes(nid, vals) ==
    Optional(Optional({[id |-> nid]}, "x", vals), "y", vals)
SpanDiagrams ==
    { Diagram(ns, <<>>, <<>>) :
        ns \in { <<>> } \cup { << a >> : a \in SpanNodes(StrA, {50}) }
               \cup { << a, b >> : a \in SpanNodes(StrA, {50}),
                                   b \in SpanNodes(StrLowerB, {0, 100}) } }

\* edges whose id is e, f, or the id of the node a
CellIdEdges == {[id |-> i, from |-> StrA, to |-> StrLowerB] : i \in {StrA, StrE, StrF}}
CellIdDiagrams ==
    { Diagram(TwoNodes, es, <<>>) : es \in ListsOver(CellIdEdges, MaxEdges) }

InitRenderCall ==
    /\ \/ /\ data \in EdgeOrderDiagrams \cup GroupOrderDiagrams \cup EdgeKindDiagrams
                       \cup SparseNodeDiagrams \cup GroupMemberDiagrams
                       \cup LabelDiagrams \cup CellIdDiagrams
          /\ layout_override = ""
       \/ /\ data \in NodeOrderDiagrams
          /\ layout_override \in {"", "position"}
       \/ /\ data \in SpanDiagrams
          /\ layout_override \in {"", "structure", "position"}
    /\ out = NotRendered

----------------------------------------------------------------------------
(* Claims about the converter *)

\* the orders a list can be given in
PermsOf(l) == { [i \in 1..Len(l) |-> l[p[i]]] : p \in Permutations(1..Len(l)) }

\* what the last render call returned
Returned == [status |-> out.status, body |-> out.body]

\* C4: for each render method and every diagram with unique node ids, giving
\* the nodes, the edges and the groups in another order yields the same
\* document, also when edge ids or group ids repeat or are absent.
C4_OrderIndependent ==
    (/\ out.fmt \in Formats
     /\ \A i, j \in 1..Len(data.nodes) : i # j => data.nodes[i].id # data.nodes[j].id) =>
        \A ns \in PermsOf(data.nodes), es \in PermsOf(data.edges), gs \in PermsOf(data.groups) :
            Render(out.fmt, Converter([data EXCEPT !.nodes = ns, !.edges = es, !.groups = gs],
                                      layout_override)) = Returned

IsEdgeLine(l) == l.k = "edge"
IsSvgLine(l) == l.k = "line"
EdgeLines == SelectSeq(out.body, IsEdgeLine)
SvgLines == SelectSeq(out.body, IsSvgLine)

\* the edges in ascending order of their ids, which are distinct here
DistinctEdgeIds ==
    \A i, j \in 1..Len(data.edges) :
        i # j => Get(data.edges[i], "id", <<>>) # Get(data.edges[j], "id", <<>>)
EdgesInOrder == SortedById(data.edges)
BothEndsExist(e) ==
    /\ \E i \in 1..Len(data.nodes) : data.nodes[i].id = e.from
    /\ \E i \in 1..Len(data.nodes) : data.nodes[i].id = e.to
ResolvedInOrder == SelectSeq(EdgesInOrder, BothEndsExist)

\* C5: an edge carries the dash indication of each format exactly when its
\* style.strokeStyle is "dashed", whatever its type: "-.->" in mermaid,
\* style=dashed in graphviz, dashed=1; in drawio, stroke-dasharray in svg.
C5_DashedInEveryFormat ==
    (out.status = "ok" /\ DistinctEdgeIds) =>
        /\ out.fmt \in {"mermaid", "graphviz", "drawio"} =>
              /\ Len(EdgeLines) = Len(EdgesInOrder)
              /\ \A i \in 1..Len(EdgeLines) :
                    IsDashed(EdgesInOrder[i]) <=>
                        CASE out.fmt = "mermaid" -> EdgeLines[i].arrow = "-.->"
                          [] out.fmt = "graphviz" -> "style=dashed" \in Range(EdgeLines[i].attrs)
                          [] out.fmt = "drawio" -> << "dashed", "1" >> \in Range(EdgeLines[i].style)
        /\ out.fmt = "svg" =>
              /\ Len(SvgLines) = Len(ResolvedInOrder)
              /\ \A i \in 1..Len(SvgLines) : IsDashed(ResolvedInOrder[i]) <=> SvgLines[i].dash

IsVertex(l) == l.k = "vertex"
NodeOfId(nid) == data.nodes[CHOOSE i \in 1..Len(data.nodes) : data.nodes[i].id = nid]

\* C7: for nodes that carry an id and omit optional fields, every render
\* method returns a document, and to_drawio writes the defaults (120 by 60
\* at 0, 0) for what is missing.
C7_MissingFieldsTolerated ==
    out.fmt \in Formats =>
        /\ out.status = "ok"
        /\ out.fmt = "drawio" =>
              \A i \in 1..Len(out.body) :
                  IsVertex(out.body[i]) =>
                      LET node == NodeOfId(SubSeq(out.body[i].id, 6, Len(out.body[i].id)))
                      IN  /\ out.body[i].x = Get(node, "x", 0)
                          /\ out.body[i].y = Get(node, "y", 0)
                          /\ out.body[i].width = Get(node, "width", 120)
                          /\ out.body[i].height = Get(node, "height", 60)

AllPositioned ==
    /\ data.nodes # <<>>
    /\ \A i \in 1..Len(data.nodes) : {"x", "y"} \subseteq DOMAIN data.nodes[i]

Count(l, P(_)) == Cardinality({ i \in 1..Len(l) : P(l[i]) })
EndPairs == { << data.edges[i].from, data.edges[i].to >> : i \in 1..Len(data.edges) }
DashOf(e) == IsDashed(e)
DashOfLine(l) == l.dash

\* C8: with at least one node, all nodes positioned, and edges whose ends may
\* name no node: to_svg returns a document with one line per edge whose two
\* ends are nodes and none for the others; to_mermaid and to_graphviz write
\* one edge line per edge, a dangling end as the identifier itself.
C8_DanglingEdges ==
    (out.fmt \in Formats /\ AllPositioned) =>
        /\ out.status = "ok"
        /\ out.fmt = "svg" =>
              /\ Len(SvgLines) = Count(data.edges, BothEndsExist)
              /\ Count(SvgLines, DashOfLine) = Count(ResolvedInOrder, DashOf)
        /\ out.fmt \in {"mermaid", "graphviz"} =>
              /\ Len(EdgeLines) = Len(data.edges)
              /\ \A p \in EndPairs :
                    LET LineOfPair(l) == l.from = p[1] /\ l.to = p[2]
                        EdgeOfPair(e) == e.from = p[1] /\ e.to = p[2]
                    IN  Count(EdgeLines, LineOfPair) = Count(data.edges, EdgeOfPair)

C8_Witness ==
    /\ out.fmt = "svg" /\ out.status = "ok" /\ AllPositioned
    /\ Len(data.edges) = 2
    /\ BothEndsExist(data.edges[1])
    /\ ~BothEndsExist(data.edges[2])
    /\ Len(SvgLines) = 1

NodeIds == { data.nodes[i].id : i \in 1..Len(data.nodes) }

\* the groups that list an id, and the places where it is listed
GroupsListing(nid) ==
    { g \in 1..Len(data.groups) : nid \in Range(data.groups[g].nodeIds) }
PlacesListing(nid) ==
    UNION { { << g, i >> : i \in { i \in 1..Len(data.groups[g].nodeIds) :
                                     data.groups[g].nodeIds[i] = nid } } :
            g \in 1..Len(data.groups) }

\* the declaration lines of a node, and the subgraph line a line stands under
DeclarationsOf(nid) ==
    { i \in 1..Len(out.body) : out.body[i].k = "node" /\ out.body[i].id = nid }
BlockOf(i) ==
    { j \in 1..(i - 1) :
         /\ out.body[j].k = "subgraph"
         /\ \A m \in (j + 1)..(i - 1) : out.body[m].k # "end" }

\* every node is declared once: at top level when no group lists it, and
\* otherwise under the subgraph line of the group that lists it; and no line
\* declares an id of no node
DeclaredOnce ==
    /\ \A nid \in NodeIds :
          /\ Cardinality(DeclarationsOf(nid)) = 1
          /\ \A i \in DeclarationsOf(nid) :
                /\ (GroupsListing(nid) = {}) <=> (BlockOf(i) = {})
                /\ \A g \in GroupsListing(nid) :
                      \E j \in BlockOf(i) :
                          out.body[j].id = Get(data.groups[g], "id", StrGroupLower)
    /\ \A i \in 1..Len(out.body) : out.body[i].k = "node" => out.body[i].id \in NodeIds

\* C9 as stated: when each node id is listed by at most one group, to_mermaid
\* declares every node exactly once, at top level or in its group's block.
C9_OneGroupPerNode ==
    (out.fmt = "mermaid"
        /\ \A nid \in NodeIds : Cardinality(GroupsListing(nid)) <= 1)
    => DeclaredOnce

\* C9 as amended: when each node id is listed at most once in the nodeIds of
\* all groups together, to_mermaid declares every node exactly once, at top
\* level or in its group's block.
C9_OneListingPerNode ==
    (out.fmt = "mermaid"
        /\ \A nid \in NodeIds : Cardinality(PlacesListing(nid)) <= 1)
    => DeclaredOnce

C9_Witness ==
    /\ out.fmt = "mermaid" /\ out.status = "ok"
    /\ Len(data.nodes) = 2 /\ Len(data.groups) = 1
    /\ data.groups[1].nodeIds = << StrZ, StrA >>
    /\ \E i \in DeclarationsOf(StrA) : BlockOf(i) # {}
    /\ \E i \in DeclarationsOf(StrLowerB) : BlockOf(i) = {}

\* the entity html.escape writes for a character: the four the claim names
\* and, as html.escape does by default, the single quote
EntityOf(c) ==
    CASE c = 38 -> << 38, 97, 109, 112, 59 >>
      [] c = 60 -> << 38, 108, 116, 59 >>
      [] c = 62 -> << 38, 103, 116, 59 >>
      [] c = 34 -> << 38, 113, 117, 111, 116, 59 >>
      [] c = 39 -> << 38, 35, 120, 50, 55, 59 >>
      [] OTHER -> << c >>
Escaped(l) == Flatten([i \in 1..Len(l) |-> EntityOf(l[i])])

\* " becomes ', [ becomes (, ] becomes )
Substituted(l) ==
    [i \in 1..Len(l) |-> CASE l[i] = 34 -> 39 [] l[i] = 91 -> 40 [] l[i] = 93 -> 41 [] OTHER -> l[i]]

\* no character of S occurs in l
Without(l, S) == \A i \in 1..Len(l) : l[i] \notin S

\* every & of l starts one of the entities
AmpersandsStartEntities(l) ==
    \A i \in 1..Len(l) :
        l[i] = 38 =>
            \E e \in { << 38, 97, 109, 112, 59 >>, << 38, 108, 116, 59 >>, << 38, 103, 116, 59 >>, << 38, 113, 117, 111, 116, 59 >>, << 38, 35, 120, 50, 55, 59 >> } :
                i + Len(e) - 1 <= Len(l) /\ SubSeq(l, i, i + Len(e) - 1) = e

\* C14: a node's label is written in to_drawio's value attribute and in
\* to_svg's text element with & < > and " replaced by their entities, so that
\* it cannot close the attribute or open a tag, and in to_mermaid's
\* declaration with " [ ] replaced by ' ( ), so that none of them is left.
C14_LabelsEscaped ==
    out.status = "ok" =>
        \A n \in 1..Len(data.nodes) :
            "label" \in DOMAIN data.nodes[n] =>
                LET node == data.nodes[n]
                    Written(l) ==
                        CASE out.fmt = "drawio" ->
                                 /\ l.k = "vertex" /\ l.id = StrCell \o node.id
                                 /\ l.value = Escaped(node.label)
                                 /\ Without(l.value, {60, 62, 34})
                                 /\ AmpersandsStartEntities(l.value)
                          [] out.fmt = "svg" ->
                                 /\ l.k = "text"
                                 /\ l.label = Escaped(node.label)
                                 /\ Without(l.label, {60, 62, 34})
                                 /\ AmpersandsStartEntities(l.label)
                          [] out.fmt = "mermaid" ->
                                 /\ l.k = "node" /\ l.id = node.id
                                 /\ l.label = Substituted(node.label)
                                 /\ Without(l.label, {34, 91, 93})
                          [] OTHER -> TRUE
                IN  \E i \in 1..Len(out.body) : Written(out.body[i])

\* the label <" written by to_drawio
C14_Witness ==
    /\ out.fmt = "drawio" /\ out.status = "ok"
    /\ Len(data.nodes) = 1
    /\ Get(data.nodes[1], "label", <<>>) = << 60, 34 >>
    /\ \E i \in 1..Len(out.body) :
          out.body[i].k = "vertex" /\ out.body[i].value = << 38, 108, 116, 59 >> \o << 38, 113, 117, 111, 116, 59 >>

\* the two names are the same but for the case of their letters
SameIgnoringCase(a, b) ==
    /\ Len(a) = Len(b)
    /\ \A i \in 1..Len(a) :
          \/ a[i] = b[i]
          \/ IsUpper(a[i]) /\ a[i] + 32 = b[i]
          \/ IsUpper(b[i]) /\ b[i] + 32 = a[i]

NameOf(f) ==
    CASE f = "mermaid" -> StrMermaid
      [] f = "graphviz" -> StrGraphviz
      [] f = "drawio" -> StrDrawio
      [] f = "svg" -> StrSvg

\* what the render method of format f returns
MethodOf(f) ==
    CASE f = "mermaid" -> to_mermaid(Conv)
      [] f = "graphviz" -> to_graphviz(Conv)
      [] f = "drawio" -> to_drawio(Conv)
      [] f = "svg" -> to_svg(Conv)

\* C17: convert(fmt) returns what the render method of the format named by
\* fmt, compared without regard to case, returns; for any other name it
\* fails with an error and returns no document of any format.
C17_ConvertDispatch ==
    "arg" \in DOMAIN out =>
        IF \E f \in Formats : SameIgnoringCase(out.arg, NameOf(f))
        THEN \A f \in Formats : SameIgnoringCase(out.arg, NameOf(f)) => Returned = MethodOf(f)
        ELSE out.status \notin {"ok", "none"} /\ out.body = <<>>

\* convert("GraphViz") has returned the graphviz document
C17_Witness ==
    /\ "arg" \in DOMAIN out
    /\ out.arg = << 71, 114, 97, 112, 104, 86, 105, 122 >>
    /\ out.status = "ok"
    /\ out.body[1].k = "digraph"

IsFlowchartLine(l) == l.k = "flowchart"

\* the x span of the nodes is strictly greater than their y span
WiderThanTall ==
    LET xs == { Get(data.nodes[i], "x", 0) : i \in 1..Len(data.nodes) }
        ys == { Get(data.nodes[i], "y", 0) : i \in 1..Len(data.nodes) }
    IN  Max(xs) - Min(xs) > Max(ys) - Min(ys)

\* C19: to_mermaid declares "LR" exactly when the layout override is
\* "position", there is a node, and max(x)-min(x) is strictly greater than
\* max(y)-min(y), a missing coordinate counting as 0; otherwise "TD".
C19_FlowDirection ==
    (out.fmt = "mermaid" /\ out.status = "ok") =>
        /\ Len(SelectSeq(out.body, IsFlowchartLine)) = 1
        /\ SelectSeq(out.body, IsFlowchartLine)[1].direction =
              IF layout_override = "position" /\ data.nodes # <<>> /\ WiderThanTall
              THEN "LR" ELSE "TD"

\* two nodes, one without x, wider than tall, under the position layout
C19_Witness ==
    /\ out.fmt = "mermaid" /\ out.status = "ok"
    /\ layout_override = "position"
    /\ Len(data.nodes) = 2
    /\ "x" \notin DOMAIN data.nodes[1]
    /\ WiderThanTall
    /\ SelectSeq(out.body, IsFlowchartLine)[1].direction = "LR"

\* C20: when the node ids are pairwise distinct and the edge ids are pairwise
\* distinct, the ids of all the cells to_drawio writes (node cells, edge
\* cells, the root cells "0" and "1") are pairwise distinct.
C20_CellIdsDistinct ==
    (/\ out.fmt = "drawio" /\ out.status = "ok"
     /\ DistinctIds(data.nodes)
     /\ DistinctEdgeIds) =>
        \A i, j \in 1..Len(out.body) : i # j => out.body[i].id # out.body[j].id

----------------------------------------------------------------------------
(* convert.py and parse_excalidraw.py: main.  Reading, importing, rendering *)
(* and writing can each raise; main catches nothing, so an exception ends   *)
(* the run.                                                                 *)

\* line 269
get_ext(fmt) ==
    CASE fmt = "mermaid" -> ".mmd"
      [] fmt = "graphviz" -> ".dot"
      [] fmt = "drawio" -> ".drawio"
      [] fmt = "svg" -> ".svg"
      [] OTHER -> ".txt"

\* convert.py lines 298-301
ConvertOutPath(path, fmt) ==
    IF output # "" /\ Len(files) = 1 /\ Len(formats) = 1
    THEN [dir |-> "", name |-> output, ext |-> ""]
    ELSE [dir |-> "outdir", name |-> path.stem, ext |-> get_ext(fmt)]

\* parse_excalidraw.py lines 149-150
ParseOutPath(path) ==
    IF output # "" /\ Len(files) = 1
    THEN [dir |-> "", name |-> output, ext |-> ""]
    ELSE [dir |-> "outdir", name |-> path.stem, ext |-> ".json"]

Step(what, file, fmt) == [step |-> what, file |-> file, fmt |-> fmt]

\* convert.py lines 284-286, parse_excalidraw.py lines 144-146
CliNoFiles ==
    /\ cPc = "start" /\ files = <<>>
    /\ cPc' = "exit1"
    /\ UNCHANGED << cliTool, files, formats, output, cFile, cFmt, attempted, written, notCli >>

\* convert.py line 288, then the loop over the files
CliBegin ==
    /\ cPc = "start" /\ files # <<>>
    /\ cPc' = "file"
    /\ UNCHANGED << cliTool, files, formats, output, cFile, cFmt, attempted, written, notCli >>

\* convert.py lines 290-294: open and json.load
ConvertLoad ==
    /\ cliTool = "convert" /\ cPc = "file" /\ cFile <= Len(files)
    /\ attempted' = Append(attempted, Step("read", cFile, ""))
    /\ \E ok \in BOOLEAN :
          cPc' = IF ok THEN "format" ELSE "raised"
    /\ cFmt' = 1
    /\ UNCHANGED << cliTool, files, formats, output, cFile, written, notCli >>

\* convert.py lines 296-304: convert, then write; an unknown format raises
\* KeyError in convert (line 265)
ConvertFormat ==
    /\ cliTool = "convert" /\ cPc = "format" /\ cFmt <= Len(formats)
    /\ LET fmt == formats[cFmt]
           path == ConvertOutPath(files[cFile], fmt)
       IN  \E rendered \in IF fmt \in Formats THEN BOOLEAN ELSE {FALSE}, wrote \in BOOLEAN :
              /\ attempted' = attempted \o << Step("render", cFile, fmt) >>
                                \o (IF rendered THEN << Step("write", cFile, fmt) >> ELSE <<>>)
              /\ written' = IF rendered /\ wrote THEN Append(written, path) ELSE written
              /\ cPc' = IF rendered /\ wrote THEN "format" ELSE "raised"
              /\ cFmt' = IF rendered /\ wrote THEN cFmt + 1 ELSE cFmt
    /\ UNCHANGED << cliTool, files, formats, output, cFile, notCli >>

\* convert.py line 296: the formats of a file are exhausted
ConvertNextFile ==
    /\ cliTool = "convert" /\ cPc = "format" /\ cFmt > Len(formats)
    /\ cPc' = "file" /\ cFile' = cFile + 1
    /\ UNCHANGED << cliTool, files, formats, output, cFmt, attempted, written, notCli >>

\* parse_excalidraw.py lines 148-154: import, then write
ParseFile ==
    /\ cliTool = "parse" /\ cPc = "file" /\ cFile <= Len(files)
    /\ \E parsed \in BOOLEAN, wrote \in BOOLEAN :
          /\ attempted' = attempted \o << Step("import", cFile, "") >>
                            \o (IF parsed THEN << Step("write", cFile, "") >> ELSE <<>>)
          /\ written' = IF parsed /\ wrote
                        THEN Append(written, ParseOutPath(files[cFile])) ELSE written
          /\ cPc' = IF parsed /\ wrote THEN "file" ELSE "raised"
          /\ cFile' = IF parsed /\ wrote THEN cFile + 1 ELSE cFile
    /\ UNCHANGED << cliTool, files, formats, output, cFmt, notCli >>

\* convert.py line 306 and the end of main
CliFinish ==
    /\ cPc = "file" /\ cFile > Len(files)
    /\ cPc' = "done"
    /\ UNCHANGED << cliTool, files, formats, output, cFile, cFmt, attempted, written, notCli >>

\* the paths a glob can match, in ascending order
PathPool == << [dir |-> "d1", stem |-> "a"], [dir |-> "d1", stem |-> "b"],
               [dir |-> "d2", stem |-> "a"] >>

\* sorted(glob.glob(...)): the chosen paths in ascending order
RECURSIVE Ascending(_, _)
Ascending(S, k) ==
    IF k > Len(PathPool) THEN <<>>
    ELSE (IF k \in S THEN << PathPool[k] >> ELSE <<>>) \o Ascending(S, k + 1)
Matches == { S \in SUBSET (1..Len(PathPool)) : Cardinality(S) <= MaxFiles }

FormatNames == {"mermaid", "svg", "jpeg"}
FormatLists == ListsOver(FormatNames, MaxFormats) \ { <<>> }

IdleCli ==
    /\ cliTool = "" /\ files = <<>> /\ formats = <<>> /\ output = ""
    /\ cPc = "idle" /\ cFile = 1 /\ cFmt = 1 /\ attempted = <<>> /\ written = <<>>

\* convert.py lines 280-282, where glob's matches are sorted;
\* parse_excalidraw.py lines 141-142, where they come in glob's own order
InitCliCall ==
    /\ \/ /\ cliTool = "convert"
          /\ files \in { Ascending(S, 1) : S \in Matches }
          /\ formats \in FormatLists
       \/ /\ cliTool = "parse"
          /\ files \in UNION { PermsOf(Ascending(S, 1)) : S \in Matches }
          /\ formats = <<>>
    /\ output \in {"", "out"}
    /\ cPc = "start" /\ cFile = 1 /\ cFmt = 1 /\ attempted = <<>> /\ written = <<>>

----------------------------------------------------------------------------
(* Claims about the command-line drivers *)

Ended == cPc \in {"done", "raised"}

\* C6: in a batch run, a failure in one step (reading or importing an input,
\* rendering, writing an output) does not prevent the later steps: at the
\* end of the run every input file has been read or imported, and each
\* format of every file that was read has been attempted.
C6_BatchContinuesAfterFailure ==
    Ended =>
        /\ \A f \in 1..Len(files) :
              \E i \in 1..Len(attempted) :
                  attempted[i].file = f /\ attempted[i].step \in {"read", "import"}
        /\ \A i \in 1..Len(attempted) :
              (attempted[i].step = "read" /\ cPc = "done") =>
                  \A m \in 1..Len(formats) :
                      Step("render", attempted[i].file, formats[m]) \in Range(attempted)

\* C23: within one run no output path is written twice: with the matched
\* input files distinct and the formats of the list distinct, every write of
\* the run goes to a path of its own, also for files of the same base name in
\* different directories.
C23_NoPathWrittenTwice ==
    (\A i, j \in 1..Len(formats) : i # j => formats[i] # formats[j]) =>
        \A i, j \in 1..Len(written) : i # j => written[i] # written[j]

----------------------------------------------------------------------------
(* Claims about sanitize_id *)

\* the name with suffix k
Suffixed(b, k) == b \o Underscore \o IntToStr(k)

\* b if it is free in S, otherwise b_k for the least k >= 2 with b_k free
LeastFree(b, S) ==
    IF b \notin S THEN b
    ELSE LET k == CHOOSE k \in 2..(Cardinality(S) + 2) :
                     /\ Suffixed(b, k) \notin S
                     /\ \A j \in 2..(k - 1) : Suffixed(b, j) \in S
         IN  Suffixed(b, k)

\* C2: called with a collision set S of any size (the empty set included),
\* sanitize_id returns the base name when it is free and otherwise the base
\* name with the least free suffix >= 2, and afterwards S holds the returned
\* name and has gained nothing else.
C2_CollisionSetContract ==
    (sPc = "done" /\ sExisting.supplied) =>
        /\ sResult = LeastFree(SanitizeBase(sText), sExisting.members)
        /\ sExistingOut.supplied
        /\ sExistingOut.members = sExisting.members \cup {sResult}

\* the sanitization rule as the specification states it
StatedRule(text) ==
    LET s == StripUnderscores(SubNonAlnumRuns(Lower(text)))
    IN  IF s = <<>> THEN StrNode
        ELSE IF IsDigit(s[1]) THEN StrNode \o Underscore \o s
        ELSE s

\* C3: without a collision set sanitize_id returns what the stated rule gives
\* ("node" when nothing is left after stripping), so the result is never
\* empty, never starts with a digit and never starts or ends with an
\* underscore.
C3_SanitizeFollowsRule ==
    (sPc = "done" /\ ~sExisting.supplied) =>
        /\ sResult = StatedRule(sText)
        /\ sResult # <<>>
        /\ ~IsDigit(sResult[1])
        /\ sResult[1] # 95
        /\ sResult[Len(sResult)] # 95

----------------------------------------------------------------------------
(* Claims about parse_excalidraw *)

\* C1: the node ids of the returned model are pairwise distinct.
C1_NodeIdsDistinct ==
    iPc = "done" =>
        \A j, k \in 1..Len(iResult.nodes) :
            j # k => iResult.nodes[j].id # iResult.nodes[k].id

\* the elements the first pass imports, in list order
IsImportedShape(el) ==
    /\ Get(el, "type", NoType) \notin {"arrow", "line", "text"}
    /\ ~Get(el, "isDeleted", FALSE)
ImportedShapes == SelectSeq(elements, IsImportedShape)

SixShapes == {"rectangle", "diamond", "circle", "ellipse", "cylinder", "parallelogram"}
ThreeShapes == {"rectangle", "diamond", "ellipse"}

\* the k-th node's type is the k-th imported element's type when that is in
\* `kept`, and "rectangle" otherwise
TypesFollow(kept) ==
    /\ Len(iResult.nodes) = Len(ImportedShapes)
    /\ \A k \in 1..Len(ImportedShapes) :
          LET native == Get(ImportedShapes[k], "type", NoType)
          IN  iResult.nodes[k].type = IF native \in kept THEN native ELSE "rectangle"

\* C10 as stated: the node's type is the element's type for each of the six
\* recognized shapes and "rectangle" for an unrecognized or absent type.
C10_SixShapesKept == iPc = "done" => TypesFollow(SixShapes)

\* C10 as amended: the node's type is the element's type for rectangle,
\* diamond and ellipse and "rectangle" for every other type (circle, cylinder
\* and parallelogram included) or none; so every imported node type is one of
\* rectangle, diamond, ellipse.
C10_ThreeShapesKept ==
    iPc = "done" =>
        /\ TypesFollow(ThreeShapes)
        /\ \A k \in 1..Len(iResult.nodes) : iResult.nodes[k].type \in ThreeShapes

C10_Witness ==
    /\ iPc = "done"
    /\ Len(iResult.nodes) = 2 /\ Len(ImportedShapes) = 2
    /\ Get(ImportedShapes[1], "type", NoType) = "circle"
    /\ iResult.nodes[1].type = "rectangle"
    /\ Get(ImportedShapes[2], "type", NoType) = "diamond"
    /\ iResult.nodes[2].type = "diamond"

\* the text elements bound to the native id eid, by position
BoundTextAt(eid) ==
    { i \in 1..Len(elements) :
        Get(elements[i], "type", NoType) = "text" /\ Get(elements[i], "containerId", "") = eid }

\* the number of shapes imported from the elements before position i
ImportedBefore(i) == Cardinality({ j \in 1..(i - 1) : IsImportedShape(elements[j]) })

\* the node made from the shape at position i
NodeAt(i) == iResult.nodes[ImportedBefore(i) + 1]

\* the label the shape at position i is to get
StatedLabel(i) ==
    LET el == elements[i]
        at == BoundTextAt(el.id)
        bound == IF at = {} THEN <<>> ELSE Get(elements[Min(at)], "text", <<>>)
        inline == Get(el, "text", <<>>)
    IN  StripSpace(IF bound # <<>> THEN bound
                   ELSE IF inline # <<>> THEN inline
                   ELSE StrShape \o IntToStr(ImportedBefore(i) + 1))

\* C11: a shape's label is, trimmed, the text of the first text element bound
\* to it wherever that sits in the list; without one (or with an empty one)
\* its inline text; and without that "Shape N", N being one more than the
\* number of nodes produced before it.
C11_LabelPrecedence ==
    iPc = "done" =>
        /\ Len(iResult.nodes) = Len(ImportedShapes)
        /\ \A i \in 1..Len(elements) :
              IsImportedShape(elements[i]) => NodeAt(i).label = StatedLabel(i)

\* a shape with an inline text and two texts bound to it, both after it
C11_Witness ==
    /\ iPc = "done"
    /\ Len(elements) = 3
    /\ IsImportedShape(elements[1]) /\ Get(elements[1], "text", <<>>) = StrUpperA
    /\ BoundTextAt("e1") = {2, 3}
    /\ Get(elements[2], "text", <<>>) = StrSpacedC
    /\ Get(elements[3], "text", <<>>) = StrB
    /\ iResult.nodes[1].label = << 67 >>

\* the binding is there: the key is present, not null, and names an element
HasBinding(el, key) ==
    /\ key \in DOMAIN el
    /\ el[key] # NullDict
    /\ "elementId" \in DOMAIN el[key]

\* the position of the imported shape with native id eid, 0 when there is none
RegisteredAt(eid) ==
    LET at == { j \in 1..Len(elements) : elements[j].id = eid /\ IsImportedShape(elements[j]) }
    IN  IF at = {} THEN 0 ELSE Min(at)

\* the connectors that are to become edges
IsBoundConnector(el) ==
    /\ Get(el, "type", NoType) \in {"arrow", "line"}
    /\ ~Get(el, "isDeleted", FALSE)
    /\ HasBinding(el, "startBinding") /\ HasBinding(el, "endBinding")
    /\ RegisteredAt(el.startBinding.elementId) # 0
    /\ RegisteredAt(el.endBinding.elementId) # 0
BoundConnectors == SelectSeq(elements, IsBoundConnector)

\* C12: the import completes, a connector without a start or end binding
\* (key missing or null) being dropped silently, and emits in element order
\* one edge per non-deleted connector whose two bound ids were registered in
\* pass 1, with id "{from}_to_{to}" and from and to the ids of those nodes.
C12_EdgesFromBoundConnectors ==
    iPc \in {"done", "raised"} =>
        /\ iPc = "done"
        /\ Len(iResult.edges) = Len(BoundConnectors)
        /\ \A k \in 1..Len(BoundConnectors) :
              LET e == iResult.edges[k]
                  c == BoundConnectors[k]
              IN  /\ e.from = NodeAt(RegisteredAt(c.startBinding.elementId)).id
                  /\ e.to = NodeAt(RegisteredAt(c.endBinding.elementId)).id
                  /\ e.id = e.from \o StrTo \o e.to
                  /\ \E n \in 1..Len(iResult.nodes) : iResult.nodes[n].id = e.from
                  /\ \E n \in 1..Len(iResult.nodes) : iResult.nodes[n].id = e.to

\* the members of a set of positions in ascending order
RECURSIVE InOrder(_)
InOrder(S) == IF S = {} THEN <<>> ELSE << Min(S) >> \o InOrder(S \ {Min(S)})

\* the ids of the nodes made from the elements whose frameId is fid
MembersOf(fid) ==
    LET at == InOrder({ j \in 1..Len(elements) :
                          Get(elements[j], "frameId", "") = fid /\ IsImportedShape(elements[j]) })
    IN  [k \in 1..Len(at) |-> NodeAt(at[k]).id]

IsFrameWithMembers(el) ==
    /\ Get(el, "type", NoType) = "frame"
    /\ ~Get(el, "isDeleted", FALSE)
    /\ MembersOf(el.id) # <<>>
FramesWithMembers == SelectSeq(elements, IsFrameWithMembers)

Unnamed(el) == "name" \notin DOMAIN el \/ el.name = None

\* C13: one group per non-deleted frame with members and none for a frame
\* without; its nodeIds are, in element order, the ids of the registered
\* elements whose frameId is the frame's native id; an unnamed frame (name
\* missing or null) has label "Group" and an id sanitized from "Group".
C13_GroupsFromFrames ==
    iPc = "done" =>
        /\ Len(iResult.groups) = Len(FramesWithMembers)
        /\ \A k \in 1..Len(FramesWithMembers) :
              LET g == iResult.groups[k]
                  f == FramesWithMembers[k]
              IN  /\ g.nodeIds = MembersOf(f.id)
                  /\ g.label = IF Unnamed(f) THEN StrGroup ELSE f.name
                  /\ Unnamed(f) =>
                        /\ Len(g.id) >= Len(StrGroupLower)
                        /\ SubSeq(g.id, 1, Len(StrGroupLower)) = StrGroupLower

\* C15: diagramType is "flowchart" exactly when a returned node is a diamond,
\* and "architecture" otherwise (an empty list and deleted diamonds included).
C15_DiagramType ==
    iPc = "done" =>
        /\ iResult.diagramType \in {"flowchart", "architecture"}
        /\ iResult.diagramType = "flowchart" <=>
              \E k \in 1..Len(iResult.nodes) : iResult.nodes[k].type = "diamond"
        /\ elements = <<>> => iResult.diagramType = "architecture"

\* a rectangle, then a diamond; and a deleted diamond, then a rectangle
C15_Witness ==
    /\ iPc = "done"
    /\ Len(elements) = 2
    /\ \/ /\ Get(elements[1], "type", NoType) = "rectangle"
          /\ Get(elements[2], "type", NoType) = "diamond"
          /\ Len(iResult.nodes) = 2
          /\ iResult.diagramType = "flowchart"
       \/ /\ Get(elements[1], "type", NoType) = "diamond"
          /\ Get(elements[1], "isDeleted", FALSE)
          /\ Len(iResult.nodes) = 1
          /\ iResult.diagramType = "architecture"

\* C16: fillColor is in a node's style only when the element's
\* backgroundColor is set and is not "transparent", strokeColor only when the
\* element has a strokeColor; the style holds nothing else, and there is no
\* style key when neither is present.
C16_StyleKeys ==
    iPc = "done" =>
        \A i \in 1..Len(elements) :
            IsImportedShape(elements[i]) =>
                LET el == elements[i]
                    n == NodeAt(i)
                    st == Get(n, "style", <<>>)
                IN  /\ "style" \in DOMAIN n =>
                          DOMAIN st # {} /\ DOMAIN st \subseteq {"fillColor", "strokeColor"}
                    /\ "fillColor" \in DOMAIN st =>
                          /\ "backgroundColor" \in DOMAIN el
                          /\ el.backgroundColor \notin {"", "transparent"}
                          /\ st.fillColor = el.backgroundColor
                    /\ "strokeColor" \in DOMAIN st =>
                          /\ "strokeColor" \in DOMAIN el /\ el.strokeColor # ""
                          /\ st.strokeColor = el.strokeColor
                    /\ ({"backgroundColor", "strokeColor"} \cap DOMAIN el = {}) =>
                          "style" \notin DOMAIN n

\* a transparent shape with a stroke colour, and a shape with no colour
C16_Witness ==
    /\ iPc = "done"
    /\ Len(elements) = 2 /\ Len(iResult.nodes) = 2
    /\ Get(elements[1], "backgroundColor", "") = "transparent"
    /\ Get(elements[1], "strokeColor", "") = "#00f"
    /\ iResult.nodes[1].style = [strokeColor |-> "#00f"]
    /\ {"backgroundColor", "strokeColor"} \cap DOMAIN elements[2] = {}
    /\ "style" \notin DOMAIN iResult.nodes[2]

\* the elements that are not flagged deleted
NotDeleted(el) == ~Get(el, "isDeleted", FALSE)
LiveElements == SelectSeq(elements, NotDeleted)

\* C21: parse_excalidraw returns the nodes, edges and groups it returns for
\* the same list without its deleted elements: a deleted text supplies no
\* label, a deleted shape no node, no edge endpoint and no group member.
C21_DeletedElementsIgnored ==
    iPc = "done" =>
        LET live == ImportOf(LiveElements)
        IN  /\ live.status = "ok"
            /\ iResult.nodes = live.nodes
            /\ iResult.edges = live.edges
            /\ iResult.groups = live.groups

\* the elements that are shapes: not deleted, and not a connector, a free
\* text or a frame
IsShapeElement(el) ==
    /\ Get(el, "type", NoType) \notin {"arrow", "line", "text", "frame"}
    /\ ~Get(el, "isDeleted", FALSE)

\* C22: a frame element is emitted only as a group: it makes no entry of the
\* nodes list and is not registered, so that no edge ends at it and no group
\* lists it.
C22_FramesOnlyGroups ==
    iPc = "done" =>
        /\ Len(iResult.nodes) = Cardinality({ i \in 1..Len(elements) : IsShapeElement(elements[i]) })
        /\ \A i \in 1..Len(elements) :
              Get(elements[i], "type", NoType) = "frame" => elements[i].id \notin DOMAIN id_map

----------------------------------------------------------------------------
IdleRender == data = NoData /\ layout_override = "" /\ out = NotRendered

InitSanitize == InitSanitizeCall /\ IdleImport /\ IdleRender /\ IdleCli
NextSanitize == SanitizeId
SpecSanitize == InitSanitize /\ [][NextSanitize]_vars

InitImport == IdleSanitize /\ InitImportCall /\ IdleRender /\ IdleCli
NextImport ==
    \/ Pass1Step
    \/ Pass1End
    \/ Pass2Step
    \/ Pass2End
    \/ Pass3Step
    \/ Return
SpecImport == InitImport /\ [][NextImport]_vars

InitRender == IdleSanitize /\ IdleImport /\ InitRenderCall /\ IdleCli
NextRender ==
    \/ ToMermaid
    \/ ToGraphviz
    \/ ToDrawio
    \/ ToSvg
    \/ Convert
SpecRender == InitRender /\ [][NextRender]_vars

InitCli == IdleSanitize /\ IdleImport /\ IdleRender /\ InitCliCall
NextCli ==
    \/ CliNoFiles
    \/ CliBegin
    \/ ConvertLoad
    \/ ConvertFormat
    \/ ConvertNextFile
    \/ ParseFile
    \/ CliFinish
SpecCli == InitCli /\ [][NextCli]_vars

\* the whole program: any of its entry points
Init == InitSanitize \/ InitImport \/ InitRender \/ InitCli
Next == NextSanitize \/ NextImport \/ NextRender \/ NextCli
Spec == Init /\ [][Next]_vars

====
